---- MODULE Spec2Model ----
(***************************************************************************)
(* ilp_peterson.py: the graph-colouring integer program.                   *)
(*                                                                         *)
(* ilp_graph_coloring(n, edges) creates n colour variables w and n*n       *)
(* vertex-colour variables x, adds one assignment row per vertex and one   *)
(* conflict row per (colour, edge), calls the solver once and prints the   *)
(* non-zero variables when the solver reports OPTIMAL.                     *)
(*                                                                         *)
(* A linear expression is a sequence of terms <<coefficient, variable>>;   *)
(* a variable is its index in model.vars (w first, then x row by row, the  *)
(* numbering of the OUTPUT comment).  A constraint is                      *)
(* [expr, sense, rhs] with sense "==" or "<=".                             *)
(***************************************************************************)
EXTENDS Integers, Sequences, FiniteSets, TLC

VARIABLES
  n,                \* parameter n of ilp_graph_coloring
  edges,            \* parameter edges, a list of pairs
  pc,               \* position in ilp_graph_coloring
  i,                \* loop variable of the assignment loop (line 29)
  k,                \* loop variable of the outer conflict loop (line 33)
  e,                \* position in edges of the inner conflict loop (line 34)
  constrs,          \* model.constrs, in the order added
  status,           \* the value returned by model.optimize()
  objective_value,  \* model.objective_value
  val,              \* the solver's assignment: val[v + 1] is v.x of model.vars[v]
  best,             \* the solver's incumbent: best objective found and its assignment
  out,              \* what has been printed
  err               \* the exception that ended the call, or "none"

vars == <<n, edges, pc, i, k, e, constrs, status, objective_value, val, best, out, err>>

\* Largest vertex count of the enumerated input graphs.
MaxN == 3

----------------------------------------------------------------------------
(* Variables of the model                                                  *)

\* Python list indexing: a negative index counts from the end.
PyIndex(idx) == IF idx < 0 THEN idx + n ELSE idx

\* list[idx] raises IndexError outside -n .. n-1.
PyInRange(idx) == PyIndex(idx) >= 0 /\ PyIndex(idx) < n

\* w[c]: the c-th variable added to the model.
W(c) == c

\* x[v][c]: added after the n variables of w, row by row.
X(v, c) == n + PyIndex(v) * n + PyIndex(c)

\* len(model.vars) once w and x are built.
NumVars == IF n > 0 THEN n + n * n ELSE 0

\* xsum(w[i] for i in range(n)), the expression minimised.
Objective == [t \in 1..(IF n > 0 THEN n ELSE 0) |-> <<1, W(t - 1)>>]

----------------------------------------------------------------------------
(* Constraints                                                             *)

\* A mutation of the assignment row: "at most one colour" in place of "exactly one".
AssignmentAtMostOne(v) ==
  [expr |-> [t \in 1..n |-> <<1, X(v, t - 1)>>], sense |-> "<=", rhs |-> 1]

\* xsum(x[i][j] for j in range(n)) == 1
AssignmentConstraint(v) ==
  [expr |-> [t \in 1..n |-> <<1, X(v, t - 1)>>], sense |-> "==", rhs |-> 1]

\* A mutation of the conflict row that leaves the second endpoint out.
ConflictOneEndpoint(a, b, c) ==
  [expr |-> << <<1, X(a, c)>>, <<-1, W(c)>> >>, sense |-> "<=", rhs |-> 0]

\* A mutation of the conflict row that bounds by the constant 1 instead of w[k].
ConflictWithoutW(a, b, c) ==
  [expr |-> << <<1, X(a, c)>>, <<1, X(b, c)>> >>, sense |-> "<=", rhs |-> 1]

\* A mutation of the conflict row with the sign of w[k] wrong.
ConflictWrongSign(a, b, c) ==
  [expr |-> << <<1, X(a, c)>>, <<1, X(b, c)>>, <<1, W(c)>> >>,
   sense |-> "<=", rhs |-> 0]

\* x[i][k] + x[j][k] <= w[k]
ConflictConstraint(a, b, c) ==
  [expr |-> << <<1, X(a, c)>>, <<1, X(b, c)>>, <<-1, W(c)>> >>,
   sense |-> "<=", rhs |-> 0]

----------------------------------------------------------------------------
(* The solver: binary variables, linear rows, minimisation                 *)

Min2(a, b) == IF a < b THEN a ELSE b
Max2(a, b) == IF a > b THEN a ELSE b

\* Smallest value a term can take under a partial assignment of the first
\* Len(partial) variables, the others being free in {0, 1}.
TermLow(term, partial) ==
  IF term[2] < Len(partial) THEN term[1] * partial[term[2] + 1]
  ELSE Min2(term[1], 0)

\* Largest value a term can take under a partial assignment.
TermHigh(term, partial) ==
  IF term[2] < Len(partial) THEN term[1] * partial[term[2] + 1]
  ELSE Max2(term[1], 0)

RECURSIVE ExprLow(_, _, _)
ExprLow(expr, partial, t) ==
  IF t > Len(expr) THEN 0
  ELSE TermLow(expr[t], partial) + ExprLow(expr, partial, t + 1)

RECURSIVE ExprHigh(_, _, _)
ExprHigh(expr, partial, t) ==
  IF t > Len(expr) THEN 0
  ELSE TermHigh(expr[t], partial) + ExprHigh(expr, partial, t + 1)

\* No completion of the partial assignment can satisfy the row.
RowLost(c, partial) ==
  \/ ExprLow(c.expr, partial, 1) > c.rhs
  \/ c.sense = "==" /\ ExprHigh(c.expr, partial, 1) < c.rhs

\* The row has a term in variable v.
Mentions(c, v) == \E t \in 1..Len(c.expr) : c.expr[t][2] = v

\* A node of the search tree is fathomed when a row that mentions the variable
\* just fixed can no longer be satisfied.
Pruned(partial) ==
  /\ Len(partial) > 0
  /\ \E r \in 1..Len(constrs) :
       /\ Mentions(constrs[r], Len(partial) - 1)
       /\ RowLost(constrs[r], partial)

\* A complete assignment satisfies every row of the model.
Feasible(a) ==
  /\ Len(a) = NumVars
  /\ \A r \in 1..Len(constrs) : ~RowLost(constrs[r], a)

\* Value of the objective on the variables fixed so far: a lower bound of the
\* objective of every completion, its coefficients being non-negative.
ObjOf(partial) == ExprLow(Objective, partial, 1)

\* No incumbent yet: an objective above every attainable value.
NoIncumbent == [obj |-> NumVars + 1, sol |-> <<>>]

\* A node of the depth-first search is cut when it is fathomed or cannot improve
\* on the incumbent.
Cut(partial, incumbent) == Pruned(partial) \/ ObjOf(partial) >= incumbent.obj

\* Some variable of the node is fixed to 0: a 1-branch is still to be searched.
HasOpenBranch(partial) == \E t \in 1..Len(partial) : partial[t] = 0

\* The next node in depth-first order after a node is closed: the 1-branch of
\* the deepest variable fixed to 0.
NextNode(partial) ==
  LET t == CHOOSE u \in 1..Len(partial) :
             /\ partial[u] = 0
             /\ \A z \in (u + 1)..Len(partial) : partial[z] = 1
  IN  Append(SubSeq(partial, 1, t - 1), 1)

----------------------------------------------------------------------------
(* Inputs                                                                  *)

\* The vertex pairs a < b below m.
Pairs(m) == {p \in (0..(m - 1)) \X (0..(m - 1)) : p[1] < p[2]}

\* Edges a caller can pass that are no edge of a simple graph on n vertices:
\* a self-loop, an endpoint equal to n, a negative endpoint.
BadEdges(m) == {<<0, 0>>, <<0, m>>, <<0, -1>>}

\* A set of pairs as a list, smallest pair first.
RECURSIVE ListOf(_)
ListOf(S) ==
  IF S = {} THEN <<>>
  ELSE LET p == CHOOSE q \in S :
                  \A r \in S : q[1] < r[1] \/ (q[1] = r[1] /\ q[2] <= r[2])
       IN  <<p>> \o ListOf(S \ {p})

\* The edge lists enumerated for n = m: every simple graph, alone or followed
\* by one bad edge.
EdgeLists(m) ==
  {ListOf(g) : g \in SUBSET Pairs(m)}
  \cup {Append(ListOf(g), b) : g \in SUBSET Pairs(m), b \in BadEdges(m)}

\* The edges of the Petersen graph, as listed in the source.
PetersenEdges ==
  << <<0, 1>>, <<0, 4>>, <<0, 5>>, <<1, 2>>, <<1, 6>>, <<2, 3>>, <<2, 7>>,
     <<3, 4>>, <<3, 8>>, <<4, 9>>, <<5, 7>>, <<5, 8>>, <<6, 8>>, <<6, 9>>,
     <<7, 9>> >>

\* n of the Petersen run.
PetersenN == 10

----------------------------------------------------------------------------
(* ilp_graph_coloring                                                      *)

Start(m, es) ==
  /\ n = m
  /\ edges = es
  /\ pc = "vars"
  /\ i = 0
  /\ k = 0
  /\ e = 1
  /\ constrs = <<>>
  /\ status = "none"
  /\ objective_value = -1
  /\ val = <<>>
  /\ best = [obj |-> -1, sol |-> <<>>]
  /\ out = <<>>
  /\ err = "none"

Init == \E m \in 0..MaxN : \E es \in EdgeLists(m) : Start(m, es)

InitPetersen == Start(PetersenN, PetersenEdges)

\* Lines 16-26: the model, w, x and the objective.
BuildVars ==
  /\ pc = "vars"
  /\ pc' = "assign"
  /\ i' = 0
  /\ UNCHANGED <<n, edges, k, e, constrs, status, objective_value, val, best, out, err>>

\* Lines 29-30, one iteration.
AddAssignment ==
  /\ pc = "assign"
  /\ i < n
  /\ constrs' = Append(constrs, AssignmentConstraint(i))
  /\ i' = i + 1
  /\ UNCHANGED <<n, edges, pc, k, e, status, objective_value, val, best, out, err>>

\* Line 29, range(n) exhausted.
AssignmentDone ==
  /\ pc = "assign"
  /\ i >= n
  /\ pc' = "conflict"
  /\ k' = 0
  /\ e' = 1
  /\ UNCHANGED <<n, edges, i, constrs, status, objective_value, val, best, out, err>>

\* Line 35 for colour k and edge edges[e], both x[i] and x[j] in range.
AddConflict ==
  /\ pc = "conflict"
  /\ k < n
  /\ e <= Len(edges)
  /\ PyInRange(edges[e][1]) /\ PyInRange(edges[e][2])
  /\ constrs' = Append(constrs, ConflictConstraint(edges[e][1], edges[e][2], k))
  /\ e' = e + 1
  /\ UNCHANGED <<n, edges, pc, i, k, status, objective_value, val, best, out, err>>

\* Line 35 with x[i] or x[j] out of range: IndexError leaves the function.
ConflictIndexError ==
  /\ pc = "conflict"
  /\ k < n
  /\ e <= Len(edges)
  /\ ~(PyInRange(edges[e][1]) /\ PyInRange(edges[e][2]))
  /\ pc' = "raised"
  /\ err' = "IndexError"
  /\ UNCHANGED <<n, edges, i, k, e, constrs, status, objective_value, val, best, out>>

\* Line 34, edges exhausted: the next colour of line 33.
NextColor ==
  /\ pc = "conflict"
  /\ k < n
  /\ e > Len(edges)
  /\ k' = k + 1
  /\ e' = 1
  /\ UNCHANGED <<n, edges, pc, i, constrs, status, objective_value, val, best, out, err>>

\* Line 33, range(n) exhausted.
ConflictDone ==
  /\ pc = "conflict"
  /\ k >= n
  /\ pc' = "optimize"
  /\ UNCHANGED <<n, edges, i, k, e, constrs, status, objective_value, val, best, out, err>>

\* Line 38, the call: the solver starts its search at the root node.
Optimize ==
  /\ pc = "optimize"
  /\ pc' = "search"
  /\ val' = <<>>
  /\ best' = NoIncumbent
  /\ UNCHANGED <<n, edges, i, k, e, constrs, status, objective_value, out, err>>

\* After a node is closed: on to the next open branch, or the search is over.
CloseNode ==
  IF HasOpenBranch(val)
  THEN val' = NextNode(val) /\ UNCHANGED pc
  ELSE pc' = "searched" /\ UNCHANGED val

\* One step of the depth-first search at the node val: a cut node is closed; a
\* complete assignment that satisfies every row becomes the incumbent and is
\* closed; any other node is branched on, 0 first.
SearchStep ==
  /\ pc = "search"
  /\ IF Cut(val, best)
     THEN CloseNode /\ UNCHANGED best
     ELSE IF Len(val) < NumVars
          THEN val' = Append(val, 0) /\ UNCHANGED <<pc, best>>
          ELSE /\ best' = IF Feasible(val) THEN [obj |-> ObjOf(val), sol |-> val]
                          ELSE best
               /\ CloseNode
  /\ UNCHANGED <<n, edges, i, k, e, constrs, status, objective_value, out, err>>

\* Line 38, the return: the search is over and the incumbent is the optimum.
SolverReturnIncumbent ==
  /\ pc = "searched"
  /\ best.obj <= NumVars
  /\ status' = "OPTIMAL"
  /\ objective_value' = best.obj
  /\ val' = best.sol
  /\ pc' = "print"
  /\ UNCHANGED <<n, edges, i, k, e, constrs, best, out, err>>

\* Line 38, the return: the search is over and found no assignment.
SolverReturnInfeasible ==
  /\ pc = "searched"
  /\ best.obj > NumVars
  /\ status' = "INFEASIBLE"
  /\ pc' = "print"
  /\ UNCHANGED <<n, edges, i, k, e, constrs, objective_value, val, best, out, err>>

\* Which optimal assignment a solver reports is its own choice: any assignment
\* that attains the optimum may be the one returned.
SolverAlternative ==
  /\ pc = "searched"
  /\ best.obj <= NumVars
  /\ objective_value' = best.obj
  /\ val' = <<>>
  /\ pc' = "choose"
  /\ UNCHANGED <<n, edges, i, k, e, constrs, status, best, out, err>>

\* Choosing the reported assignment: fix the next variable to 0 or 1, unless
\* a row is lost by it.
SolverBranch ==
  /\ pc = "choose"
  /\ Len(val) < NumVars
  /\ \E b \in {0, 1} :
       /\ ~Pruned(Append(val, b))
       /\ val' = Append(val, b)
  /\ UNCHANGED <<n, edges, pc, i, k, e, constrs, status, objective_value, best, out, err>>

\* Line 38, the return: an assignment that satisfies every row and attains the
\* optimum is reported OPTIMAL.
SolverReturn ==
  /\ pc = "choose"
  /\ Feasible(val)
  /\ ObjOf(val) = objective_value
  /\ status' = "OPTIMAL"
  /\ pc' = "print"
  /\ UNCHANGED <<n, edges, i, k, e, constrs, objective_value, val, best, out, err>>

\* Line 38, the return when the solver itself fails.
SolverError ==
  /\ pc = "search"
  /\ val = <<>>
  /\ status' = "ERROR"
  /\ pc' = "print"
  /\ UNCHANGED <<n, edges, i, k, e, constrs, objective_value, val, best, out, err>>

\* The indices v of model.vars with abs(v.x) > 0, the variables printed.
NonZeros(a) == {v \in 0..(Len(a) - 1) : a[v + 1] # 0}

\* Lines 41-45: status OPTIMAL prints the cost and the non-zero variables.
PrintOptimal ==
  /\ pc = "print"
  /\ status = "OPTIMAL"
  /\ out' = <<[cost |-> objective_value, nonzero |-> NonZeros(val)]>>
  /\ pc' = "done"
  /\ UNCHANGED <<n, edges, i, k, e, constrs, status, objective_value, val, best, err>>

\* Line 41 false: the function returns without printing or raising.
ReturnSilently ==
  /\ pc = "print"
  /\ status # "OPTIMAL"
  /\ pc' = "done"
  /\ UNCHANGED <<n, edges, i, k, e, constrs, status, objective_value, val, best, out, err>>

Build ==
  \/ BuildVars
  \/ AddAssignment
  \/ AssignmentDone
  \/ AddConflict
  \/ ConflictIndexError
  \/ NextColor
  \/ ConflictDone

Search ==
  \/ Optimize
  \/ SearchStep
  \/ SolverReturnIncumbent

Next ==
  \/ Build
  \/ Search
  \/ SolverReturnInfeasible
  \/ SolverAlternative
  \/ SolverBranch
  \/ SolverReturn
  \/ SolverError
  \/ PrintOptimal
  \/ ReturnSilently

Spec == Init /\ [][Next]_vars

\* The Petersen run.  Its model has 110 variables and 160 rows; the solver is
\* taken to return the incumbent of its search, the candidate assignments being
\* too many to enumerate, and the edge list has no index out of range.
NextPetersen ==
  \/ BuildVars
  \/ AddAssignment
  \/ AssignmentDone
  \/ AddConflict
  \/ NextColor
  \/ ConflictDone
  \/ Search
  \/ PrintOptimal

SpecPetersen == InitPetersen /\ [][NextPetersen]_vars

----------------------------------------------------------------------------
(* Reading an assignment                                                   *)

Vertices == 0..(n - 1)
Colors == 0..(n - 1)

\* The value of x[v][c] and of w[c] in a complete assignment.
XVal(a, v, c) == a[X(v, c) + 1]
WVal(a, c) == a[W(c) + 1]

\* A valid graph: n > 0, every endpoint in [0, n), no self-loop.
ValidGraph ==
  /\ n > 0
  /\ \A t \in 1..Len(edges) :
       /\ edges[t][1] \in Vertices
       /\ edges[t][2] \in Vertices
       /\ edges[t][1] # edges[t][2]

\* The colours decoded for vertex v: those c with x[v][c] = 1.
ColorsOf(a, v) == {c \in Colors : XVal(a, v, c) = 1}

\* The distinct colours appearing in the decoded mapping.
ColorsUsed(a) == {c \in Colors : \E v \in Vertices : XVal(a, v, c) = 1}

\* Vertex v is an endpoint of some edge of the list.
HasIncidentEdge(v) ==
  \E t \in 1..Len(edges) : PyIndex(edges[t][1]) = v \/ PyIndex(edges[t][2]) = v

\* The two endpoints of every edge have no colour in common.
ProperColoring(a) ==
  \A t \in 1..Len(edges) : \A c \in Colors :
    ~(XVal(a, edges[t][1], c) = 1 /\ XVal(a, edges[t][2], c) = 1)

\* Every vertex has exactly one colour.
OneColorEach(a) == \A v \in Vertices : Cardinality(ColorsOf(a, v)) = 1

\* Vertex v gets colour v and every colour is declared used.
IdentityAssignment ==
  [t \in 1..NumVars |->
     IF t <= n THEN 1
     ELSE IF (t - 1 - n) \div n = (t - 1 - n) % n THEN 1 ELSE 0]

\* The assignment listed in the OUTPUT comment of the source: the variables
\* var(0), var(1), var(8), var(18), ..., var(108) are 1 and the others 0.
CommentOutput ==
  [t \in 1..110 |->
     IF (t - 1) \in {0, 1, 8, 18, 20, 38, 41, 50, 60, 71, 81, 98, 108}
     THEN 1 ELSE 0]

\* The graph is the complete graph on its n vertices.
CompleteGraph == ValidGraph /\ edges = ListOf(Pairs(n))

\* The graph has a two-sided split with every edge across it.
Bipartite ==
  /\ ValidGraph
  /\ \E side \in [Vertices -> {0, 1}] :
       \A t \in 1..Len(edges) : side[edges[t][1]] # side[edges[t][2]]

\* The search is exact: no satisfying assignment among the candidates costs
\* less than the optimum the search established.
SearchFindsMinimum ==
  (pc = "choose" /\ Feasible(val)) => ObjOf(val) >= objective_value

----------------------------------------------------------------------------
(* Claims                                                                  *)

\* C1: for a valid graph, in every binary assignment that satisfies all the
\* rows built by ilp_graph_coloring, the endpoints of every edge have no colour
\* k with x[i][k] = 1 and x[j][k] = 1.
ConflictFreedom == (ValidGraph /\ Feasible(val)) => ProperColoring(val)

\* A satisfying assignment of a valid graph with an edge, among the candidates.
ConflictFreedomWitness ==
  /\ ValidGraph
  /\ Len(edges) > 0
  /\ pc = "choose"
  /\ Feasible(val)

\* C2: for a valid graph, in every binary assignment that satisfies the rows,
\* each vertex has exactly one colour k with x[i][k] = 1.
AssignmentCompleteness == (ValidGraph /\ Feasible(val)) => OneColorEach(val)

\* A satisfying assignment of a valid graph on three vertices, not an optimal one.
AssignmentCompletenessWitness ==
  /\ ValidGraph
  /\ n = 3
  /\ pc = "choose"
  /\ Feasible(val)
  /\ ObjOf(val) > objective_value

\* C3: on the Petersen graph of the source the minimum of the objective is 3:
\* the assignment of the OUTPUT comment satisfies the built model at cost 3, no
\* satisfying assignment met by the search costs less, and the run ends OPTIMAL
\* at cost 3 with an assignment that is a proper colouring, one colour per
\* vertex, using exactly 3 colours.
PetersenThreeColors ==
  /\ pc = "optimize" => (Feasible(CommentOutput) /\ ObjOf(CommentOutput) = 3)
  /\ Feasible(val) => ObjOf(val) >= 3
  /\ pc \in {"print", "done"} =>
       /\ status = "OPTIMAL"
       /\ objective_value = 3
       /\ Feasible(val)
       /\ ObjOf(val) = 3
       /\ ProperColoring(val)
       /\ OneColorEach(val)
       /\ Cardinality(ColorsUsed(val)) = 3
  /\ pc = "done" => out = <<[cost |-> 3, nonzero |-> NonZeros(val)]>>

\* The Petersen run has printed its optimal solution of cost 3.
PetersenThreeColorsWitness ==
  /\ n = PetersenN
  /\ edges = PetersenEdges
  /\ pc = "done"
  /\ status = "OPTIMAL"
  /\ Len(out) = 1
  /\ out[1].cost = 3

BipartiteTwoColors ==
  (Bipartite /\ Len(edges) > 0 /\ status = "OPTIMAL") =>
    /\ objective_value = 2
    /\ Cardinality(ColorsUsed(val)) = 2

\* C6: for an edgeless graph with n >= 1 the optimal objective value is 1 and
\* every optimal decoded mapping has 1 distinct colour.
EdgelessOneColor ==
  (ValidGraph /\ edges = <<>> /\ status = "OPTIMAL") =>
    /\ objective_value = 1
    /\ Cardinality(ColorsUsed(val)) = 1

\* C7: when optimize() returns INFEASIBLE, UNBOUNDED or ERROR the call ends in
\* a SolveFailedError and emits nothing; it never ends silently.
SolveFailureSurfaced ==
  (status \in {"INFEASIBLE", "UNBOUNDED", "ERROR"} /\ pc = "done") =>
    /\ err = "SolveFailedError"
    /\ out = <<>>

\* C8: an input with n <= 0, an endpoint outside [0, n) or a self-loop fails
\* with InvalidGraphError before any variable or row is built and never
\* reaches the solver.
InvalidGraphRejected ==
  ~ValidGraph =>
    /\ pc \in {"vars", "raised"}
    /\ constrs = <<>>
    /\ pc = "raised" => err = "InvalidGraphError"

\* C9: in every optimal solution w[k] = 1 exactly for the colours k assigned to
\* a vertex that has an incident edge; so the optimal objective value is at
\* most the number of distinct colours of the decoded mapping, and equal to it
\* for a valid graph without isolated vertices.
ChargedColors ==
  status = "OPTIMAL" =>
    /\ \A c \in Colors :
         WVal(val, c) = 1 <=>
           \E v \in Vertices : HasIncidentEdge(v) /\ XVal(val, v, c) = 1
    /\ objective_value = ObjOf(val)
    /\ objective_value <= Cardinality(ColorsUsed(val))
    /\ (ValidGraph /\ \A v \in Vertices : HasIncidentEdge(v)) =>
         objective_value = Cardinality(ColorsUsed(val))

\* An optimal solution in which an isolated vertex has a colour that is not charged.
ChargedColorsWitness ==
  /\ ValidGraph
  /\ Len(edges) > 0
  /\ status = "OPTIMAL"
  /\ \E v \in Vertices : \E c \in Colors :
       ~HasIncidentEdge(v) /\ XVal(val, v, c) = 1 /\ WVal(val, c) = 0
  /\ objective_value < Cardinality(ColorsUsed(val))

\* C10: for a valid graph the built model has a satisfying assignment (vertex
\* i gets colour i, every w[k] = 1), and the solver never returns INFEASIBLE.
AlwaysFeasible ==
  ValidGraph =>
    /\ pc = "optimize" => Feasible(IdentityAssignment)
    /\ status # "INFEASIBLE"

\* The model of the triangle is built and the identity assignment satisfies it.
AlwaysFeasibleWitness ==
  /\ ValidGraph
  /\ Len(edges) = 3
  /\ pc = "optimize"
  /\ Feasible(IdentityAssignment)

====
